---- MODULE Spec2Model ----
(***************************************************************************)
(* Direct and indirect ownership ratios (src/app/routers/calculations.py). *)
(*                                                                         *)
(* The request models, the entity indexers, the conversion of named edges  *)
(* to index edges, the direct ownership matrix, the closure loop and the   *)
(* extraction of the ratio records are modelled as one state machine: one  *)
(* action per function stage, one Iterate step per pass of the while loop, *)
(* and one step for the response the route handler returns.                *)
(*                                                                         *)
(* Numbers.  The code computes with float64, and so does the model: a      *)
(* number is the tuple <<e, l1, l2, l3, l4>> that stands for m * 2^e, with  *)
(* the mantissa m = l1 * Radix^3 + l2 * Radix^2 + l3 * Radix + l4 below     *)
(* 2^53 and the limbs below Radix = 2^14.  A normal number has              *)
(* 2^52 <= m and MinExp <= e <= MaxExp; a subnormal number has e = MinExp   *)
(* and m < 2^52; zero is <<MinExp, 0, 0, 0, 0>>.  Every float64 that is not *)
(* negative has one such tuple, so two numbers are equal when their tuples  *)
(* are.  Sums, differences, products and quotients are computed exactly on  *)
(* the mantissas and rounded to the nearest float64, a tie to the even     *)
(* mantissa; a result above the largest float64 is Inf, and Inf times 0 is  *)
(* NaN.  A percentage of a request is written in ten-thousandths (5000 is   *)
(* 0.5, 1 is 0.0001) and is the float64 nearest to that decimal.            *)
(*                                                                         *)
(* The matrix product.  np.matmul leaves the product to the BLAS routine   *)
(* of the build, and the code does not say how that routine rounds.  The   *)
(* model runs every request under two roundings: each product rounded      *)
(* before it is added to the sum, and each product multiplied and added in *)
(* one rounding (a fused multiply-add).                                     *)
(***************************************************************************)
EXTENDS Integers, Sequences, FiniteSets, TLC

\* ------------------------------------------------------------ numbers

\* the unit 1.0 of a percentage written in ten-thousandths
Base == 10^4

\* a mantissa is written in limbs of LimbBits bits
LimbBits == 14

Radix == 2^LimbBits

\* float64: 53 bits of mantissa; the last bit of a subnormal has the weight
\* 2^MinExp, the last bit of the largest finite number the weight 2^MaxExp
MantBits == 53

MinExp == 0 - 1074

MaxExp == 971

\* the limbs of a mantissa
MantLimbs == 4

NumZero == <<MinExp, 0, 0, 0, 0>>

\* the first limb of a mantissa of MantBits bits is TopBit at least
TopBit == 2^(MantBits - 1 - LimbBits * (MantLimbs - 1))

NumOne == <<1 - MantBits, TopBit, 0, 0, 0>>

\* float64 inf and nan: an exponent no finite number has
Inf == <<MaxExp + 1, 0, 0, 0, 0>>

NaN == <<MaxExp + 1, 1, 0, 0, 0>>

\* the mantissa of x, a natural number in limbs
Mant(x) == Tail(x)

\* the limb of weight Radix^i of the natural number m
LimbOf(m, i) == IF i < 0 \/ i >= Len(m) THEN 0 ELSE m[Len(m) - i]

\* the bits pos .. pos+LimbBits-1 of m, as a number (bit 0 is the last one)
BitsAt(m, pos) ==
    LET i == pos \div LimbBits
        b == pos % LimbBits
    IN (LimbOf(m, i) \div 2^b) + (LimbOf(m, i + 1) % 2^b) * 2^(LimbBits - b)

\* bit pos of m
BitAt(m, pos) ==
    IF pos < 0 THEN 0
    ELSE (LimbOf(m, pos \div LimbBits) \div 2^(pos % LimbBits)) % 2

\* some bit of m below bit pos is 1
AnyBelow(m, pos) ==
    /\ pos > 0
    /\ \/ LimbOf(m, pos \div LimbBits) % 2^(pos % LimbBits) # 0
       \/ \E i \in 0..(Len(m) - 1) : i < pos \div LimbBits /\ LimbOf(m, i) # 0

\* the number of bits of m up to its first 1
BitLen(m) ==
    LET set == {k \in 1..Len(m) : m[k] # 0}
        top == CHOOSE k \in set : \A j \in set : k <= j
        bits == CHOOSE b \in 1..LimbBits : 2^(b - 1) <= m[top] /\ m[top] < 2^b
    IN IF set = {} THEN 0 ELSE LimbBits * (Len(m) - top) + bits

\* carries (or borrows) propagated from the last limb to the first: the limbs
\* 1..k of raw, with carry c coming into limb k
RECURSIVE NormalizeAt(_, _, _)
NormalizeAt(raw, k, c) ==
    IF k = 1 THEN <<raw[1] + c>>
    ELSE Append(NormalizeAt(raw, k - 1, (raw[k] + c) \div Radix), (raw[k] + c) % Radix)

Normalize(raw) == NormalizeAt(raw, Len(raw), 0)

\* m / 2^s rounded to the nearest integer, a tie to the even one (the rounding
\* of float64), for a quotient of
\* at most MantBits bits; in MantLimbs + 1 limbs
ShiftRound(m, s) ==
    LET last == BitsAt(m, s)
        up == BitAt(m, s - 1) = 1 /\ (AnyBelow(m, s - 1) \/ last % 2 = 1)
    IN Normalize([j \in 1..(MantLimbs + 1) |->
                     IF j = 1 THEN 0
                     ELSE IF j = MantLimbs + 1 THEN last + (IF up THEN 1 ELSE 0)
                     ELSE BitsAt(m, s + LimbBits * (MantLimbs + 1 - j))])

\* the finite number m * 2^e, or inf when it is above the largest float64
Finite(e, m) == IF e > MaxExp THEN Inf ELSE <<e>> \o m

\* the float64 nearest to m * 2^e, for a natural number m in limbs
RoundNat(m, e) ==
    LET len == BitLen(m)
        exp == IF e + len - MantBits < MinExp THEN MinExp ELSE e + len - MantBits
        q == ShiftRound(m, exp - e)
    IN IF len = 0 THEN NumZero
       ELSE IF q[2] = 2 * TopBit THEN Finite(exp + 1, Mant(NumOne))
       ELSE Finite(exp, Tail(q))

\* the float64 of a natural number below 2^31
FromInt(n) == RoundNat(<<n \div (Radix * Radix), (n \div Radix) % Radix, n % Radix>>, 0)

\* x < y; a comparison with nan is false
Less(x, y) ==
    IF x = NaN \/ y = NaN THEN FALSE
    ELSE LET diffs == {k \in 1..Len(x) : x[k] # y[k]}
         IN  /\ diffs # {}
             /\ LET m == CHOOSE k \in diffs : \A j \in diffs : k <= j
                IN  x[m] < y[m]

\* x <= y; a comparison with nan is false
Leq(x, y) == x # NaN /\ y # NaN /\ ~Less(y, x)

\* the exact sum (sign 1) or difference (sign -1) of big and small, rounded;
\* big is the larger one. A small below a quarter of the last bit of big
\* leaves big as it is.
Combine(big, small, sign) ==
    LET d == big[1] - small[1]
    IN IF d > 64 THEN big
       ELSE RoundNat(Normalize([k \in 1..9 |->
                         BitsAt(Mant(big), LimbBits * (9 - k) - d)
                         + sign * LimbOf(Mant(small), 9 - k)]),
                     small[1])

\* x + y in float64
Add(x, y) ==
    IF x = NaN \/ y = NaN THEN NaN
    ELSE IF x = Inf \/ y = Inf THEN Inf
    ELSE IF x = NumZero THEN y
    ELSE IF y = NumZero THEN x
    ELSE IF Less(x, y) THEN Combine(y, x, 1)
    ELSE Combine(x, y, 1)

\* x - y in float64, for numbers x >= y
Sub(x, y) == IF y = NumZero THEN x ELSE Combine(x, y, 0 - 1)

\* abs(x - y) of two numbers
AbsDiff(x, y) == IF Less(x, y) THEN Sub(y, x) ELSE Sub(x, y)

\* the limb products x[a] * y[b] of the mantissas with a + b = p
Convolve(x, y, p) ==
    LET term(a) == IF a \in 1..MantLimbs /\ p - a \in 1..MantLimbs
                   THEN x[a] * y[p - a] ELSE 0
    IN term(1) + term(2) + term(3) + term(4)

\* the exact product of the mantissas of two numbers, in limbs
ExactProduct(x, y) ==
    Normalize([p \in 1..(2 * MantLimbs) |->
                  IF p = 1 THEN 0 ELSE Convolve(Mant(x), Mant(y), p)])

\* the exact product of two numbers that are not 0, rounded
Product(x, y) == RoundNat(ExactProduct(x, y), x[1] + y[1])

\* x * y in float64
Mul(x, y) ==
    IF x = NaN \/ y = NaN THEN NaN
    ELSE IF x = Inf \/ y = Inf
         THEN (IF x = NumZero \/ y = NumZero THEN NaN ELSE Inf)
    ELSE IF x = NumZero \/ y = NumZero THEN NumZero
    ELSE IF x = NumOne THEN y
    ELSE IF y = NumOne THEN x
    ELSE Product(x, y)

\* the limbs a sum of a number and an exact product is written in, and the
\* most bits that the lower end of the one may lie below the lower end of the
\* other for the sum to be written out; a lower operand further down is below
\* every bit the rounding looks at, and a last bit FarBelow bits down stands
\* for it
SumLimbs == 21

WidestGap == 170

FarBelow == 66

\* high * 2^eh + low * 2^el rounded once, for natural numbers in limbs that
\* are not 0, with eh >= el
RoundSum(high, eh, low, el) ==
    LET far == eh - el > WidestGap
        gap == IF far THEN FarBelow ELSE eh - el
        small == IF far THEN <<1>> ELSE low
    IN RoundNat(Normalize([k \in 1..SumLimbs |->
                    BitsAt(high, LimbBits * (SumLimbs - k) - gap)
                    + LimbOf(small, SumLimbs - k)]),
                eh - gap)

\* acc + x * y with one rounding, of the exact sum (a fused multiply-add)
FusedMulAdd(acc, x, y) ==
    IF acc = NaN \/ x = NaN \/ y = NaN THEN NaN
    ELSE IF x = Inf \/ y = Inf
         THEN (IF x = NumZero \/ y = NumZero THEN NaN ELSE Inf)
    ELSE IF acc = Inf THEN Inf
    ELSE IF x = NumZero \/ y = NumZero THEN acc
    ELSE IF acc = NumZero THEN Product(x, y)
    ELSE IF acc[1] >= x[1] + y[1]
         THEN RoundSum(Mant(acc), acc[1], ExactProduct(x, y), x[1] + y[1])
    ELSE RoundSum(ExactProduct(x, y), x[1] + y[1], Mant(acc), acc[1])

\* the quotient limbs of the natural number m by d from limb k on, with r
\* carried in, then the remainder
RECURSIVE ShortDiv(_, _, _, _)
ShortDiv(m, d, k, r) ==
    IF k > Len(m) THEN <<r>>
    ELSE <<(r * Radix + m[k]) \div d>> \o ShortDiv(m, d, k + 1, (r * Radix + m[k]) % d)

\* x / n in float64, for a whole number n > 0 whose odd factor is below 2^17
DivInt(x, n) ==
    LET twos == CHOOSE t \in 0..30 : n % 2^t = 0 /\ n % 2^(t + 1) # 0
        odd == n \div 2^twos
        qr == ShortDiv(Mant(x) \o <<0, 0, 0, 0, 0>>, odd, 1, 0)
        sticky == IF qr[Len(qr)] # 0 THEN 1 ELSE 0
    IN IF x = NaN \/ x = Inf \/ x = NumZero THEN x
       ELSE IF odd = 1 THEN RoundNat(Mant(x), x[1] - twos)
       ELSE RoundNat(SubSeq(qr, 1, Len(qr) - 1) \o <<sticky>>,
                     x[1] - twos - 6 * LimbBits)

\* np.rint(x): the nearest whole number, a tie to the even one
Rint(x) ==
    IF x = NaN \/ x = Inf \/ x[1] >= 0 THEN x
    ELSE RoundNat(ShiftRound(Mant(x), 0 - x[1]), 0)

\* a percentage given in ten-thousandths, as the float64 the request holds
PctNum(pn) == DivInt(FromInt(pn), Base)

\* ------------------------------------------------------------ request models

\* UltimateParentEntityAccountingType
ULTIMATE_PARENT_ENTITY == "ultimate_parent_entity"

CONSOLIDATED == "consolidated"

EQUITY_METHOD == "equity_method"

ETC == "etc"

\* the field without its upper limit
MutOwnershipRequestNoUpper(o) == o.ownership_percentage >= 0

\* Field(..., ge=0, le=1) of OwnershipRequest.ownership_percentage, in ten-thousandths
OwnershipRequestValid(o) ==
    o.ownership_percentage >= 0 /\ o.ownership_percentage <= Base

\* Field(..., ge=0, le=1) of OwnershipRequestItem.ownership_percentage
OwnershipRequestItemValid(o) ==
    o.ownership_percentage >= 0 /\ o.ownership_percentage <= Base

\* ------------------------------------------------------------ inputs

\* longest edge list of the exhaustive input family
MaxEdges == 2

\* the names of the largest scenario
NameOrder == <<"A", "B", "C", "D", "E">>

EdgeNames == {"A", "B", "C"}

\* 0, 0.0001, 0.5 and the out-of-range 1.5
EdgePcts == {0, 1, 5000, 15000}

Edge(a, b, p) ==
    [owner_entity_name |-> a, owned_entity_name |-> b, ownership_percentage |-> p]

Entity(n, t) == [name |-> n, ultimate_parent_entity_accounting_type |-> t]

AllEdges ==
    [owner_entity_name : EdgeNames, owned_entity_name : EdgeNames,
     ownership_percentage : EdgePcts]

\* every edge list of at most MaxEdges edges
ShortEdgeLists == UNION {[1..n -> AllEdges] : n \in 0..MaxEdges}

\* five entities, each owning 100% of each of the others: the ratios grow
\* about threefold with every pass
EachOwnsAll ==
    LET pairs == SelectSeq([p \in 1..25 |-> <<((p - 1) \div 5) + 1, ((p - 1) % 5) + 1>>],
                           LAMBDA pr : pr[1] # pr[2])
    IN [k \in 1..Len(pairs) |->
           Edge(NameOrder[pairs[k][1]], NameOrder[pairs[k][2]], 10000)]

\* the cases of the specification's section 8, edges of 100%, the cases that
\* reach the tolerance, the filter and the iteration cap, and cases whose
\* products and sums float64 has to round
ScenarioEdgeLists ==
    { <<Edge("A", "B", 10000)>>,
      <<Edge("A", "B", 10000), Edge("B", "C", 10000)>>,
      <<Edge("A", "B", 10000), Edge("B", "A", 10000)>>,
      <<Edge("A", "B", 5000), Edge("A", "C", 5000),
        Edge("B", "D", 10000), Edge("C", "D", 10000)>>,
      <<Edge("A", "B", 1000), Edge("B", "A", 1000)>>,
      <<Edge("A", "B", 1), Edge("B", "C", 1), Edge("C", "D", 1)>>,
      <<Edge("A", "B", 5000), Edge("B", "C", 5000), Edge("C", "D", 5000)>>,
      <<Edge("A", "B", 5000), Edge("B", "C", 5000), Edge("C", "A", 5000)>>,
      <<Edge("A", "B", 10000), Edge("B", "C", 10000), Edge("C", "A", 10000)>>,
      <<Edge("A", "B", 10000), Edge("B", "C", 10000), Edge("C", "B", 10000)>>,
      <<Edge("A", "B", 5000), Edge("B", "C", 9000), Edge("C", "B", 9000)>>,
      <<Edge("B", "C", 5000), Edge("C", "D", 0 - 1000)>>,
      <<Edge("B", "D", 10000), Edge("B", "D", 2500), Edge("D", "D", 5000)>>,
      <<Edge("A", "B", 100), Edge("B", "C", 1)>>,
      <<Edge("A", "B", 3), Edge("B", "C", 50)>>,
      <<Edge("A", "D", 500), Edge("A", "B", 1000), Edge("A", "C", 2000),
        Edge("B", "D", 3000), Edge("C", "D", 7000)>>,
      <<Edge("A", "B", 3333), Edge("B", "C", 1000), Edge("C", "D", 100),
        Edge("A", "C", 500)>>,
      <<Edge("A", "A", 7500), Edge("B", "A", 10000), Edge("A", "B", 5000),
        Edge("C", "A", 10000)>>,
      EachOwnsAll }

\* edge lists whose names sorted() has to order: a longer name, a lower-case
\* name, a name beyond the entity lists
NamedEdgeLists ==
    { <<Edge("b", "A", 5000), Edge("A", "AA", 5000), Edge("AA", "F", 5000)>>,
      <<Edge("F", "A", 10000)>> }

\* nine entities, the ultimate parent first: N8 has the index 8
NineEntities ==
    <<Entity("N0", ULTIMATE_PARENT_ENTITY), Entity("N1", CONSOLIDATED),
      Entity("N2", CONSOLIDATED), Entity("N3", CONSOLIDATED),
      Entity("N4", CONSOLIDATED), Entity("N5", CONSOLIDATED),
      Entity("N6", CONSOLIDATED), Entity("N7", CONSOLIDATED),
      Entity("N8", CONSOLIDATED)>>

\* edges between the first and the last of the nine entities: the indices 0
\* and 8 fall into the same slot of the set entity_indices
NineEdgeLists ==
    { <<Edge("N8", "N0", 5000), Edge("N0", "N8", 5000)>>,
      <<Edge("N0", "N8", 5000), Edge("N8", "N0", 5000)>>,
      <<Edge("N8", "N0", 5000)>> }

DefaultEntities ==
    <<Entity("A", ULTIMATE_PARENT_ENTITY), Entity("B", CONSOLIDATED),
      Entity("C", EQUITY_METHOD), Entity("D", ETC)>>

\* a list in another order than its classes, and a list with a name twice
OtherEntityLists ==
    { <<Entity("C", ETC), Entity("A", CONSOLIDATED), Entity("D", EQUITY_METHOD),
        Entity("B", ULTIMATE_PARENT_ENTITY)>>,
      <<Entity("A", CONSOLIDATED), Entity("B", CONSOLIDATED),
        Entity("A", ULTIMATE_PARENT_ENTITY)>> }

\* longest entity list of the exhaustive input family
EntityNames == {"A", "B", "C"}

MaxEntities == Cardinality(EntityNames)

EntityTypes == {ULTIMATE_PARENT_ENTITY, CONSOLIDATED, EQUITY_METHOD, ETC}

AllEntities == [name : EntityNames, ultimate_parent_entity_accounting_type : EntityTypes]

\* every entity list of at most MaxEntities entities, names repeated or not
ShortEntityLists == UNION {[1..n -> AllEntities] : n \in 0..MaxEntities}

\* the edge lists sent with the entity lists of the exhaustive family
IndexerEdgeLists == { <<Edge("A", "B", 5000)>> }

\* the requests: <<route, entities, ownerships>>
Requests ==
    ({"structure"} \X {DefaultEntities} \X (ShortEdgeLists \cup ScenarioEdgeLists))
    \cup ({"structure"} \X OtherEntityLists \X ScenarioEdgeLists)
    \cup ({"structure"} \X ShortEntityLists \X IndexerEdgeLists)
    \cup ({"structure"} \X {NineEntities} \X NineEdgeLists)
    \cup ({"ratio"} \X {<<>>} \X (ScenarioEdgeLists \cup NamedEdgeLists))

\* ------------------------------------------------------------ entity indexers

Numbered(names) ==
    [k \in 1..Len(names) |-> [entity_name |-> names[k], entity_number |-> k - 1]]

OfType(entities, t) ==
    SelectSeq(entities, LAMBDA e : e.ultimate_parent_entity_accounting_type = t)

OfOtherType(entities) ==
    SelectSeq(entities, LAMBDA e : e.ultimate_parent_entity_accounting_type
                  \notin {ULTIMATE_PARENT_ENTITY, CONSOLIDATED, EQUITY_METHOD})

\* the entities numbered in input order, whatever their class
MutIndexInInputOrder(entities) ==
    Numbered([k \in 1..Len(entities) |-> entities[k].name])

create_entities_index_mapping_dto(entities) ==
    LET ordered == OfType(entities, ULTIMATE_PARENT_ENTITY)
                   \o OfType(entities, CONSOLIDATED)
                   \o OfType(entities, EQUITY_METHOD)
                   \o OfOtherType(entities)
    IN Numbered([k \in 1..Len(ordered) |-> ordered[k].name])

\* the characters names are written in, in the order of their code points
Chars == " -.0123456789ABCDEFGHIJKLMNOPQRSTUVWXYZ_abcdefghijklmnopqrstuvwxyz"

\* the place of the k-th character of the string s in Chars
CodeAt(s, k) == CHOOSE c \in 1..Len(Chars) : SubSeq(Chars, c, c) = SubSeq(s, k, k)

\* s < t for two strings, as Python compares them: by the first character
\* that differs, and a string before the strings it begins
StrLess(s, t) ==
    LET diffs == {k \in 1..Len(s) : k <= Len(t) /\ SubSeq(s, k, k) # SubSeq(t, k, k)}
        first == CHOOSE k \in diffs : \A j \in diffs : k <= j
    IN IF diffs = {} THEN Len(s) < Len(t)
       ELSE CodeAt(s, first) < CodeAt(t, first)

\* sorted(names) of a set of strings
RECURSIVE Sorted(_)
Sorted(names) ==
    IF names = {} THEN <<>>
    ELSE LET least == CHOOSE s \in names : \A t \in names \ {s} : StrLess(s, t)
         IN <<least>> \o Sorted(names \ {least})

create_entities_simple_index_mapping_dto(ownerships) ==
    LET unique_entities ==
            {ownerships[k].owner_entity_name : k \in 1..Len(ownerships)}
            \cup {ownerships[k].owned_entity_name : k \in 1..Len(ownerships)}
    IN Numbered(Sorted(unique_entities))

\* ------------------------------------------------------------ conversion

\* the dict {entity_name: entity_number}: a later item replaces an earlier one
HasName(mapping, name) == \E k \in 1..Len(mapping) : mapping[k].entity_name = name

entity_name_to_number(mapping, name) ==
    LET ks == {k \in 1..Len(mapping) : mapping[k].entity_name = name}
        last == CHOOSE k \in ks : \A j \in ks : j <= k
    IN mapping[last].entity_number

\* the dict {entity_number: entity_name}
entity_index_to_name(mapping, index) ==
    LET ks == {k \in 1..Len(mapping) : mapping[k].entity_number = index}
        last == CHOOSE k \in ks : \A j \in ks : j <= k
    IN mapping[last].entity_name

\* an edge whose name lookup raises KeyError
LookupRaises(mapping, o) ==
    ~HasName(mapping, o.owner_entity_name) \/ ~HasName(mapping, o.owned_entity_name)

ConvertRaises(mapping, ownerships) ==
    \E k \in 1..Len(ownerships) :
        LookupRaises(mapping, ownerships[k]) \/ ~OwnershipRequestItemValid(ownerships[k])

\* the exception of the first edge that raises one
ConvertError(mapping, ownerships) ==
    LET ks == {k \in 1..Len(ownerships) :
                  LookupRaises(mapping, ownerships[k])
                  \/ ~OwnershipRequestItemValid(ownerships[k])}
        first == CHOOSE k \in ks : \A j \in ks : k <= j
    IN IF LookupRaises(mapping, ownerships[first]) THEN "KeyError"
       ELSE "ValidationError"

convert_ownerships_to_dto(mapping, ownerships) ==
    [k \in 1..Len(ownerships) |->
        [owner_entity_index |->
             entity_name_to_number(mapping, ownerships[k].owner_entity_name),
         owned_entity_index |->
             entity_name_to_number(mapping, ownerships[k].owned_entity_name),
         ownership_percentage |-> ownerships[k].ownership_percentage]]

\* ------------------------------------------------------------ the core

\* the literal 1e-7: the float64 nearest to 1 / 10^7
epsilon_for_calculation == DivInt(NumOne, 10^7)

\* the literal 1e-6
epsilon_for_filtering == DivInt(NumOne, 10^6)

decimal_places == 6

max_iterations == 1000

\* the relative tolerance np.allclose adds when none is given: 1e-5
rtol == DivInt(NumOne, 10^5)

Indices(n) == 0..(n - 1)

Zeros(n) == [i \in Indices(n) |-> [j \in Indices(n) |-> NumZero]]

SetMax(S) == CHOOSE m \in S : \A x \in S : x <= m

EntityIndices(items) ==
    {items[k].owner_entity_index : k \in 1..Len(items)}
    \cup {items[k].owned_entity_index : k \in 1..Len(items)}

\* one row and one column more than the largest referenced index needs
MutMatrixSizeOneMore(items) ==
    LET max_entity_index ==
            IF EntityIndices(items) # {} THEN SetMax(EntityIndices(items)) ELSE 0
    IN max_entity_index + 2

MatrixSize(items) ==
    LET max_entity_index ==
            IF EntityIndices(items) # {} THEN SetMax(EntityIndices(items)) ELSE 0
    IN max_entity_index + 1

\* the edges added into the matrix instead of written
RECURSIVE MutFillMatrixSum(_, _, _)
MutFillMatrixSum(m, items, k) ==
    IF k > Len(items) THEN m
    ELSE MutFillMatrixSum(
           [m EXCEPT ![items[k].owner_entity_index][items[k].owned_entity_index] =
                          Add(@, PctNum(items[k].ownership_percentage))],
           items, k + 1)

\* the edges written into the matrix one after the other, from edge k on
RECURSIVE FillMatrix(_, _, _)
FillMatrix(m, items, k) ==
    IF k > Len(items) THEN m
    ELSE FillMatrix(
           [m EXCEPT ![items[k].owner_entity_index][items[k].owned_entity_index] =
                          PctNum(items[k].ownership_percentage)],
           items, k + 1)

DirectOwnershipMatrix(items) == FillMatrix(Zeros(MatrixSize(items)), items, 1)

\* the diagonal set to 2
MutFillDiagonalTwo(m) ==
    [i \in DOMAIN m |-> [j \in DOMAIN m |-> IF i = j THEN Add(NumOne, NumOne)
                                            ELSE m[i][j]]]

\* the array handed on without a copy: the diagonal set to 1 in the loop
\* shows in it
MutCopyAliased(m) ==
    [i \in DOMAIN m |-> [j \in DOMAIN m |-> IF i = j THEN NumOne ELSE m[i][j]]]

\* m.copy(): an array of its own with the values of m
Copy(m) == m

\* np.fill_diagonal(m, 1)
FillDiagonal(m) ==
    [i \in DOMAIN m |-> [j \in DOMAIN m |-> IF i = j THEN NumOne ELSE m[i][j]]]

\* how the routine behind np.matmul rounds in the build the request runs on:
\* TRUE when it multiplies and adds in one rounding, FALSE when it rounds the
\* product before it adds it
VARIABLE fused_multiply_add

\* the sum of the products a[i][0] * b[0][j] .. a[i][k] * b[k][j], each
\* product added to the sum of those before it, rounded as the build does
RECURSIVE DotUpTo(_, _, _, _, _)
DotUpTo(a, b, i, j, k) ==
    IF k \notin DOMAIN a THEN NumZero
    ELSE IF fused_multiply_add
         THEN FusedMulAdd(DotUpTo(a, b, i, j, k - 1), a[i][k], b[k][j])
    ELSE Add(DotUpTo(a, b, i, j, k - 1), Mul(a[i][k], b[k][j]))

\* np.matmul(a, b), under the rounding of the build
MatMul(a, b) ==
    [i \in DOMAIN a |->
        [j \in DOMAIN a |-> DotUpTo(a, b, i, j, Cardinality(DOMAIN a) - 1)]]

\* the pass without the diagonal set to 1: what was accumulated is not kept
MutStepNoOverlay(result, direct) == MatMul(result, direct)

\* one pass of the loop body: the diagonal set to 1, then the product with
\* the direct matrix
Step(result, direct) == MatMul(FillDiagonal(result), direct)

\* np.isclose(a, b, atol): |a - b| <= atol + rtol * |b| for two numbers; nan is
\* close to nothing and inf only to inf
IsClose(a, b, atol) ==
    IF a = NaN \/ b = NaN THEN FALSE
    ELSE IF a = Inf \/ b = Inf THEN a = b
    ELSE Leq(AbsDiff(a, b), Add(atol, Mul(rtol, b)))

\* np.allclose(a, b, atol)
AllClose(a, b, atol) ==
    \A i \in DOMAIN a : \A j \in DOMAIN a : IsClose(a[i][j], b[i][j], atol)

\* the break without the iteration cap
MutLoopEndsNoCap(n, allclose) == allclose

\* iterations >= max_iterations or np.allclose(previous_matrix, result_matrix, ...)
LoopEnds(n, allclose) == n >= max_iterations \/ allclose

\* the one element of a singleton: binds a value once it is computed
Only(S) == CHOOSE x \in S : TRUE

\* one pass of the while loop on the loop's variables; a loop that has left
\* by its break stays as it is
Pass(s, direct) ==
    IF s.done THEN s
    ELSE Only({ Only({ [result_matrix |-> next, previous_matrix |-> Copy(s.result_matrix),
                        iterations |-> s.iterations + 1, close |-> allclose,
                        done |-> LoopEnds(s.iterations + 1, allclose)]
                       : allclose \in {AllClose(Copy(s.result_matrix), next,
                                                epsilon_for_calculation)} })
                : next \in {Step(s.result_matrix, direct)} })

\* 2^k passes
RECURSIVE Passes(_, _, _)
Passes(s, direct, k) ==
    IF s.done THEN s
    ELSE IF k = 0 THEN Pass(s, direct)
    ELSE Only({ Passes(half, direct, k - 1) : half \in {Passes(s, direct, k - 1)} })

\* the whole loop, lines 153-166: passes until the break, which comes after
\* max_iterations passes at the latest
Closure(direct) ==
    LET k == CHOOSE e \in 0..max_iterations :
                 /\ 2^e >= max_iterations
                 /\ \A f \in 0..(e - 1) : 2^f < max_iterations
    IN Passes([result_matrix |-> direct, previous_matrix |-> direct, iterations |-> 0,
               close |-> FALSE, done |-> FALSE], direct, k)

\* round(x, places) of a numpy float64: x times 10^places, np.rint of it, and
\* that divided by 10^places
Round(x, places) == DivInt(Rint(Mul(x, FromInt(10^places))), 10^places)

\* entity_indices is a Python set of ints.  CPython keeps a set in a table of
\* slots, 8 at first; a key goes to the slot its hash points at or, when that
\* one is taken, to the next free slot of its probe sequence; the table grows
\* when three fifths of it are in use, and a walk over the set goes through the
\* slots from the first to the last.

\* the slots of an empty set
PySet_MINSIZE == 8

\* the slots after the probed one that are looked at before the jump
LINEAR_PROBES == 9

PERTURB_SHIFT == 5

\* a slot that holds no key
Unused == 0 - 1

SetMin(S) == CHOOSE m \in S : \A x \in S : m <= x

EmptyTable(size) == [s \in 1..size |-> Unused]

\* hash(key) of an int from 0 to 2^61 - 2
Hash(key) == key

\* the slot (counted from 0) that holds the key or, when none does, the free
\* slot the key goes to: the slots i .. i + LINEAR_PROBES when they are all in
\* the table, the slot i alone when they are not, then the same from the slot
\* (5 * i + 1 + perturb) mod size with perturb shifted right by PERTURB_SHIFT
RECURSIVE Probe(_, _, _, _)
Probe(table, key, i, perturb) ==
    LET mask == Len(table) - 1
        probes == IF i + LINEAR_PROBES <= mask THEN LINEAR_PROBES ELSE 0
        hits == {s \in i..(i + probes) : table[s + 1] \in {Unused, key}}
        shifted == perturb \div 2^PERTURB_SHIFT
    IN IF hits # {} THEN SetMin(hits)
       ELSE Probe(table, key, (i * 5 + 1 + shifted) % (mask + 1), shifted)

\* the key written into its slot
Put(table, key) ==
    [table EXCEPT ![Probe(table, key, Hash(key) % Len(table), Hash(key)) + 1] = key]

\* the number of slots in use
Fill(table) == Cardinality({s \in 1..Len(table) : table[s] # Unused})

\* the keys of the table from the first slot to the last
Walk(table) == SelectSeq(table, LAMBDA key : key # Unused)

\* the first power of two from size on that is above minused
RECURSIVE NewSize(_, _)
NewSize(size, minused) == IF size <= minused THEN NewSize(size * 2, minused) ELSE size

\* the keys lo..hi of a sequence put one after the other into a table that
\* holds none of them
RECURSIVE Reinsert(_, _, _, _)
Reinsert(keys, new, lo, hi) ==
    IF lo > hi THEN new
    ELSE IF lo = hi THEN Put(new, keys[lo])
    ELSE Only({ Reinsert(keys, half, (lo + hi) \div 2 + 1, hi)
                : half \in {Reinsert(keys, new, lo, (lo + hi) \div 2)} })

\* a new table of at least PySet_MINSIZE and more than minused slots, the keys
\* put into it in the order of the walk over the old one
set_table_resize(table, minused) ==
    Reinsert(Walk(table), EmptyTable(NewSize(PySet_MINSIZE, minused)), 1, Fill(table))

\* set.add(key): nothing for a key the set holds; a new key is written, and the
\* table with fill * 5 >= mask * 3 is rebuilt with four times as many slots
\* as keys (twice as many above 50000 keys)
set_add(table, key) ==
    LET added == Put(table, key)
        used == Fill(added)
    IN IF added = table \/ used * 5 < (Len(table) - 1) * 3 THEN added
       ELSE set_table_resize(added, IF used > 50000 THEN used * 2 ELSE used * 4)

\* the keys lo..hi of a sequence added one after the other
RECURSIVE AddAll(_, _, _, _)
AddAll(table, keys, lo, hi) ==
    IF lo > hi THEN table
    ELSE IF lo = hi THEN set_add(table, keys[lo])
    ELSE Only({ AddAll(half, keys, (lo + hi) \div 2 + 1, hi)
                : half \in {AddAll(table, keys, lo, (lo + hi) \div 2)} })

\* the indices in the order lines 133-135 add them: owner, then owned, edge
\* after edge
AddedIndices(items) ==
    [k \in 1..(2 * Len(items)) |->
        IF k % 2 = 1 THEN items[(k + 1) \div 2].owner_entity_index
        ELSE items[k \div 2].owned_entity_index]

\* the entity indices in the order the loops of lines 168-169 walk the set
IndexOrder(items) ==
    Walk(AddAll(EmptyTable(PySet_MINSIZE), AddedIndices(items), 1, 2 * Len(items)))

\* the test that keeps every ratio above zero
MutKeptPositive(ratio) == Less(NumZero, ratio)

\* the test that keeps a pair: direct_indirect_ratio > epsilon_for_filtering
Kept(ratio) == Less(epsilon_for_filtering, ratio)

\* the list result of lines 167-185, from the index edges the set was filled
\* from
ResultItems(mapping, items, result) ==
    LET order == IndexOrder(items)
        m == Len(order)
        pairs == [p \in 1..(m * m) |->
                     <<order[((p - 1) \div m) + 1], order[((p - 1) % m) + 1]>>]
        kept == SelectSeq(pairs, LAMBDA pr : Kept(result[pr[1]][pr[2]]))
    IN [k \in 1..Len(kept) |->
          [owner_entity_name |-> entity_index_to_name(mapping, kept[k][1]),
           owned_entity_name |-> entity_index_to_name(mapping, kept[k][2]),
           direct_indirect_ownership_ratio |->
               Round(result[kept[k][1]][kept[k][2]], decimal_places)]]

\* ------------------------------------------------------------ state

VARIABLES
    route,                       \* the endpoint called: "structure" or "ratio"
    entities_request,            \* EntitiesRequest.entities (the "structure" route)
    ownerships_request,          \* OwnershipsRequest.ownerships
    pc,                          \* the stage the request has reached
    error,                       \* "none", or the exception that ended the request
    entities_index_mapping_dto,  \* EntitiesIndexMappingDTO.entities_index_mapping_items
    ownerships_request_dto,      \* OwnershipsRequestDTO.ownerships
    entity_indices,
    direct_ownership_matrix,
    result_matrix,
    previous_matrix,
    iterations,
    close,                       \* what np.allclose gives for the last pass
    items,                       \* result: the records the core returns (line 187)
    response                     \* <<>>, or the ApiResponse the handler has returned

vars == <<fused_multiply_add, route, entities_request, ownerships_request, pc, error,
          entities_index_mapping_dto, ownerships_request_dto, entity_indices,
          direct_ownership_matrix, result_matrix, previous_matrix, iterations,
          close, items, response>>

\* what no step changes: the build and the request
inputs == <<fused_multiply_add, route, entities_request, ownerships_request>>

core == <<entity_indices, direct_ownership_matrix, result_matrix, previous_matrix,
          iterations, close, items>>

\* DirectIndirectOwnershipRatioResponse, as the core returns it (line 187)
Response ==
    [direct_indirect_ownership_ratio_items |-> items, iterations |-> iterations]

\* the message an ApiResponse has when none is given, and the message of the
\* "ratio" route (Korean sentences in the code)
DefaultMessage == "calculation completed"

RatioMessage == "direct and indirect ownership ratio calculation completed"

\* line 201: ApiResponse(data=StructuresResponse(...)) with every list empty
StructureApiResponse ==
    [success |-> TRUE, message |-> DefaultMessage,
     data |-> [companies |-> [companies |-> <<>>],
               income_inclusion_rules |-> [income_inclusion_rules |-> <<>>],
               under_taxed_payments_rules |-> [under_taxed_payments_rules |-> <<>>],
               org_charts |-> [org_charts |-> <<>>]]]

\* line 214: ApiResponse(data=dto, success=True, message=...)
RatioApiResponse(dto) == [success |-> TRUE, message |-> RatioMessage, data |-> dto]

Init ==
    /\ fused_multiply_add \in BOOLEAN
    /\ \E r \in Requests :
           route = r[1] /\ entities_request = r[2] /\ ownerships_request = r[3]
    /\ pc = "request"
    /\ error = "none"
    /\ entities_index_mapping_dto = <<>>
    /\ ownerships_request_dto = <<>>
    /\ entity_indices = {}
    /\ direct_ownership_matrix = <<>>
    /\ result_matrix = <<>>
    /\ previous_matrix = <<>>
    /\ iterations = 0
    /\ close = FALSE
    /\ items = <<>>
    /\ response = <<>>

\* the request body parsed into OwnershipsRequest: every percentage in [0, 1]
RequestAccepted(ownerships) ==
    \A k \in 1..Len(ownerships) : OwnershipRequestValid(ownerships[k])

ParseRequest ==
    /\ pc = "request"
    /\ IF RequestAccepted(ownerships_request)
       THEN pc' = "parsed" /\ error' = error
       ELSE pc' = "failed" /\ error' = "ValidationError"
    /\ UNCHANGED <<inputs, entities_index_mapping_dto, ownerships_request_dto, core,
                   response>>

CreateMapping ==
    /\ pc = "parsed"
    /\ entities_index_mapping_dto' =
           IF route = "structure"
           THEN create_entities_index_mapping_dto(entities_request)
           ELSE create_entities_simple_index_mapping_dto(ownerships_request)
    /\ pc' = "mapped"
    /\ UNCHANGED <<inputs, error, ownerships_request_dto, core, response>>

ConvertOwnerships ==
    /\ pc = "mapped"
    /\ IF ConvertRaises(entities_index_mapping_dto, ownerships_request)
       THEN /\ pc' = "failed"
            /\ error' = ConvertError(entities_index_mapping_dto, ownerships_request)
            /\ UNCHANGED ownerships_request_dto
       ELSE /\ pc' = "converted"
            /\ error' = error
            /\ ownerships_request_dto' =
                   convert_ownerships_to_dto(entities_index_mapping_dto,
                                             ownerships_request)
    /\ UNCHANGED <<inputs, entities_index_mapping_dto, core, response>>

\* lines 129-155: the indices, the direct matrix, the copy the loop starts from
BuildMatrix ==
    /\ pc = "converted"
    /\ entity_indices' = EntityIndices(ownerships_request_dto)
    /\ direct_ownership_matrix' = DirectOwnershipMatrix(ownerships_request_dto)
    /\ result_matrix' = Copy(DirectOwnershipMatrix(ownerships_request_dto))
    /\ iterations' = 0
    /\ pc' = "loop"
    /\ UNCHANGED <<inputs, error, entities_index_mapping_dto, ownerships_request_dto,
                   previous_matrix, close, items, response>>

\* one pass of the while loop, lines 156-166
Iterate ==
    /\ pc = "loop"
    /\ previous_matrix' = Copy(result_matrix)
    /\ result_matrix' = Step(result_matrix, direct_ownership_matrix)
    /\ iterations' = iterations + 1
    /\ close' = AllClose(previous_matrix', result_matrix', epsilon_for_calculation)
    /\ pc' = IF LoopEnds(iterations', close') THEN "extract" ELSE "loop"
    /\ UNCHANGED <<inputs, error, entities_index_mapping_dto, ownerships_request_dto,
                   entity_indices, direct_ownership_matrix, items, response>>

\* lines 167-187
ExtractResult ==
    /\ pc = "extract"
    /\ items' = ResultItems(entities_index_mapping_dto, ownerships_request_dto,
                             result_matrix)
    /\ pc' = "done"
    /\ UNCHANGED <<inputs, error, entities_index_mapping_dto, ownerships_request_dto,
                   entity_indices, direct_ownership_matrix, result_matrix,
                   previous_matrix, iterations, close, response>>

\* lines 201 and 214: the route handler returns its ApiResponse.  The
\* "structure" route drops what the core returned and answers with empty
\* lists; the "ratio" route hands the core's return value on as data (the
\* keyword iterations is no field of ApiResponse and is left out)
Respond ==
    /\ pc = "done"
    /\ response' = <<IF route = "structure" THEN StructureApiResponse
                     ELSE RatioApiResponse(Response)>>
    /\ pc' = "responded"
    /\ UNCHANGED <<inputs, error, entities_index_mapping_dto, ownerships_request_dto,
                   core>>

Next ==
    \/ ParseRequest
    \/ CreateMapping
    \/ ConvertOwnerships
    \/ BuildMatrix
    \/ Iterate
    \/ ExtractResult
    \/ Respond

Spec == Init /\ [][Next]_vars

\* ------------------------------------------------------------ properties

\* the loop has left by its break
LoopOver == pc \in {"extract", "done", "responded"}

\* the core has returned its records
Returned == pc \in {"done", "responded"}

\* the direct matrix has been built
Built == pc \in {"loop", "extract", "done", "responded"}

Size == Cardinality(DOMAIN direct_ownership_matrix)

\* there is a path of at most len edges of non-zero percentage from i to j
RECURSIVE HasPath(_, _, _, _)
HasPath(direct, i, j, len) ==
    /\ len >= 1
    /\ \/ direct[i][j] # NumZero
       \/ \E k \in DOMAIN direct :
              direct[i][k] # NumZero /\ HasPath(direct, k, j, len - 1)

Acyclic(direct) ==
    \A i \in DOMAIN direct : ~HasPath(direct, i, i, Cardinality(DOMAIN direct))

\* the sum, over the paths of exactly len edges from i to j, of the product of
\* the percentages along the path (by the first edge of the path; where there
\* is no edge from i to k there is no path by k and nothing to add)
RECURSIVE PathWeight(_, _, _, _)
RECURSIVE PathWeightVia(_, _, _, _, _)
PathWeight(direct, i, j, len) ==
    IF len = 1 THEN direct[i][j] ELSE PathWeightVia(direct, i, j, len, 0)

PathWeightVia(direct, i, j, len, k) ==
    IF k \notin DOMAIN direct THEN NumZero
    ELSE IF direct[i][k] = NumZero THEN PathWeightVia(direct, i, j, len, k + 1)
    ELSE Add(Mul(direct[i][k], PathWeight(direct, k, j, len - 1)),
             PathWeightVia(direct, i, j, len, k + 1))

\* the same over the paths of 1 to len edges
RECURSIVE PathSum(_, _, _, _)
PathSum(direct, i, j, len) ==
    IF len = 0 THEN NumZero
    ELSE Add(PathSum(direct, i, j, len - 1), PathWeight(direct, i, j, len))

\* 2^-45: the part of a result by which the sums of this model's requests are
\* compared. It is no bound of the code: a product that underflows (1e-200
\* times 1e-200 is 0) or a longer sum is further from the sum of the path
\* products.
RoundingSlack == <<0 - 45 - (MantBits - 1), TopBit, 0, 0, 0>>

\* x and y differ by at most the part RoundingSlack of the larger one: the sum
\* of the same products added in another order, or rounded another way, can
\* differ in the last bits (the edges A->B 0.3333, B->C 0.1, C->D 0.01,
\* A->C 0.05 give R[A][D] = 0.0008333, and the products summed path by path
\* 0.0008332999999999999)
NearlyEqual(x, y) ==
    \/ x = y
    \/ /\ x \notin {Inf, NaN}
       /\ y \notin {Inf, NaN}
       /\ Leq(AbsDiff(x, y), Mul(RoundingSlack, IF Less(x, y) THEN y ELSE x))

\* C1 as stated: for an acyclic edge set, when the loop has ended every entry
\* R[i][j] is the sum over all ownership paths from i to j of the product of
\* the percentages along the path (an acyclic path has at most Size edges);
\* a difference in the last bits is not held against the statement.
C1_AllPathsSummed ==
    (LoopOver /\ Acyclic(direct_ownership_matrix)) =>
        \A i \in DOMAIN result_matrix : \A j \in DOMAIN result_matrix :
            NearlyEqual(result_matrix[i][j],
                        PathSum(direct_ownership_matrix, i, j, Size))

\* C1 amended: for an acyclic edge set, when the loop has ended after k
\* passes, an entry R[i][j] is 0 when no path of 1 to k+1 edges leads from i
\* to j, whatever the rounding; and on the requests of this model (edge lists
\* with percentages that are multiples of 0.0001 over at most nine entities),
\* under both roundings of the matrix product, R[i][j] is within the part
\* 2^-45 of the sum over the paths from i to j of 1 to k+1 edges of the
\* product of the percentages along the path. That is the sum over all paths
\* when no path has more than k+1 edges; otherwise the longer paths (whose
\* products the tolerance test let pass) are left out.
C1_PathsUpToIterationsSummed ==
    (LoopOver /\ Acyclic(direct_ownership_matrix)) =>
        /\ \A i \in DOMAIN result_matrix : \A j \in DOMAIN result_matrix :
               ~HasPath(direct_ownership_matrix, i, j, iterations + 1)
                   => result_matrix[i][j] = NumZero
        /\ \A i \in DOMAIN result_matrix : \A j \in DOMAIN result_matrix :
               NearlyEqual(result_matrix[i][j],
                           PathSum(direct_ownership_matrix, i, j, iterations + 1))
        /\ (\A i \in DOMAIN result_matrix : \A j \in DOMAIN result_matrix :
                PathWeight(direct_ownership_matrix, i, j, iterations + 2) = NumZero)
           => \A i \in DOMAIN result_matrix : \A j \in DOMAIN result_matrix :
                  NearlyEqual(result_matrix[i][j],
                              PathSum(direct_ownership_matrix, i, j, Size))

\* the diamond A->B 50%, A->C 50%, B->D 100%, C->D 100% has ended with
\* combined(A, D) = 1.0, the sum over its two paths
C1_Witness ==
    /\ pc = "done"
    /\ Acyclic(direct_ownership_matrix)
    /\ Size = 4
    /\ direct_ownership_matrix[0][3] = NumZero
    /\ direct_ownership_matrix[0][1] = PctNum(5000)
    /\ direct_ownership_matrix[0][2] = PctNum(5000)
    /\ result_matrix[0][3] = NumOne

\* the direct matrix of two entities that own p of each other, 0 < p < 1, and
\* nothing of themselves
TwoCycle(direct) ==
    /\ DOMAIN direct = {0, 1}
    /\ direct[0][0] = NumZero
    /\ direct[1][1] = NumZero
    /\ direct[0][1] = direct[1][0]
    /\ Less(NumZero, direct[0][1])
    /\ Less(direct[0][1], NumOne)

\* C2 as stated: for the cycle A->B p, B->A p the loop stops by the tolerance
\* test before the cap and combined(A, B) is p / (1 - p^2) up to the tolerance,
\* that is combined(A, B) * (1 - p^2) is within 1e-7 of p.
C2_CycleGeometricSum ==
    (LoopOver /\ TwoCycle(direct_ownership_matrix)) =>
        /\ close
        /\ iterations < max_iterations
        /\ Leq(AbsDiff(Mul(result_matrix[0][1],
                           Sub(NumOne, Mul(direct_ownership_matrix[0][1],
                                           direct_ownership_matrix[0][1]))),
                       direct_ownership_matrix[0][1]),
               epsilon_for_calculation)

\* C3 as stated: the returned value tells a converged result from a capped
\* one: it carries a mark that is true exactly when the tolerance test passed.
C3_ConvergenceMarked ==
    Returned =>
        /\ "converged" \in DOMAIN Response
        /\ Response["converged"] = close

\* C4: the loop cannot run on past the cap (a pass is taken only with fewer
\* than 1000 passes done), the loop ends with 1 <= iterations <= 1000, a run whose
\* last tolerance test failed ends with iterations = 1000, and the run that has
\* ended returns its records and its iteration count, with no error.
C4_LoopEndsWithinCap ==
    /\ pc = "loop" => iterations < max_iterations
    /\ LoopOver => (1 <= iterations /\ iterations <= max_iterations)
    /\ (LoopOver /\ ~close) => iterations = max_iterations
    /\ Returned => (error = "none" /\ Response.iterations = iterations)

\* a run that never passed the tolerance test has returned after 1000 passes
C4_Witness ==
    /\ pc = "done"
    /\ ~close
    /\ iterations = max_iterations
    /\ Len(items) > 0

\* no entity that another one has a ratio in has itself a ratio in anything:
\* the matrix has no path of two edges that starts off the diagonal
NoTwoStep(m) ==
    \A i \in DOMAIN m : \A k \in DOMAIN m : \A j \in DOMAIN m :
        k # i => (m[i][k] = NumZero \/ m[k][j] = NumZero)

\* C5 as stated: the closure R reached by the tolerance test, run through the
\* same loop again as the direct matrix, comes out less than 1e-7 away from R
\* in every entry.
C5_ClosureIdempotent ==
    (LoopOver /\ close) =>
        \A again \in {Closure(result_matrix)} :
            \A i \in DOMAIN result_matrix : \A j \in DOMAIN result_matrix :
                Less(AbsDiff(again.result_matrix[i][j], result_matrix[i][j]),
                     epsilon_for_calculation)

\* C5 amended: when the closure R reached by the tolerance test has no path of
\* two edges that starts off the diagonal, the same loop run again with R as
\* the direct matrix stops by the tolerance test after one pass and returns R
\* itself. (With such a path the second run adds the product of the path
\* again: the chain 50%, 50% goes from combined(A, C) = 0.25 to 0.5.)
C5_ClosureOfFlatResult ==
    (LoopOver /\ close /\ NoTwoStep(result_matrix)) =>
        \A again \in {Closure(result_matrix)} :
            /\ again.result_matrix = result_matrix
            /\ again.iterations = 1
            /\ again.close

\* a closure with an entry and no path of two edges has been reached
C5_Witness ==
    /\ LoopOver
    /\ close
    /\ NoTwoStep(result_matrix)
    /\ \E i \in DOMAIN result_matrix : \E j \in DOMAIN result_matrix :
           i # j /\ result_matrix[i][j] = PctNum(5000)

\* exactly one edge, of 100%, between two entities
SingleFullEdge(direct, a, b) ==
    /\ a # b
    /\ direct[a][b] = NumOne
    /\ \A i \in DOMAIN direct : \A j \in DOMAIN direct :
           <<i, j>> # <<a, b>> => direct[i][j] = NumZero

\* C6: for an acyclic edge set the loop stops by the tolerance test after at
\* most Size passes (Size the dimension of the direct matrix); for one edge
\* A->B of 100% it stops after 1 or 2 passes with combined(A, B) = 1.0.
C6_AcyclicStopsWithinSize ==
    (LoopOver /\ Acyclic(direct_ownership_matrix)) =>
        /\ close
        /\ iterations <= Size
        /\ iterations < max_iterations
        /\ \A a \in DOMAIN result_matrix : \A b \in DOMAIN result_matrix :
               SingleFullEdge(direct_ownership_matrix, a, b) =>
                   (iterations \in {1, 2} /\ result_matrix[a][b] = NumOne)

\* the chain of three edges of 50% over four entities has ended after three
\* passes
C6_Witness ==
    /\ LoopOver
    /\ Acyclic(direct_ownership_matrix)
    /\ Size = 4
    /\ iterations = 3
    /\ result_matrix[0][3] = PctNum(1250)

\* the records that name owner and owned
RecordsOf(owner, owned) ==
    {k \in 1..Len(items) : /\ items[k].owner_entity_name = owner
                           /\ items[k].owned_entity_name = owned}

NameOf(i) == entity_index_to_name(entities_index_mapping_dto, i)

\* the names the edges of the request use
EdgeNamesUsed ==
    {ownerships_request[k].owner_entity_name : k \in 1..Len(ownerships_request)}
    \cup {ownerships_request[k].owned_entity_name : k \in 1..Len(ownerships_request)}

\* 1e-6, the filter of the claim
OneMillionth == DivInt(NumOne, 10^6)

\* C7: the returned records are one record for each ordered pair (i, j) of
\* indices that some edge refers to with R[i][j] > 1e-6, and no other record;
\* an entity of the mapping whose name no edge uses is named in no record.
C7_RecordsAreTheKeptPairs ==
    Returned =>
        /\ \A i \in entity_indices : \A j \in entity_indices :
               Cardinality(RecordsOf(NameOf(i), NameOf(j))) =
                   IF Less(OneMillionth, result_matrix[i][j]) THEN 1 ELSE 0
        /\ \A k \in 1..Len(items) :
               \E i \in entity_indices : \E j \in entity_indices :
                   /\ items[k].owner_entity_name = NameOf(i)
                   /\ items[k].owned_entity_name = NameOf(j)
        /\ \A e \in 1..Len(entities_index_mapping_dto) :
               entities_index_mapping_dto[e].entity_name \notin EdgeNamesUsed =>
                   \A k \in 1..Len(items) :
                       /\ items[k].owner_entity_name #
                              entities_index_mapping_dto[e].entity_name
                       /\ items[k].owned_entity_name #
                              entities_index_mapping_dto[e].entity_name

\* a run has returned records while a pair of referenced entities with a
\* ratio of at most 1e-6 has none, and an entity of the mapping is in no edge
C7_Witness ==
    /\ pc = "done"
    /\ Len(items) > 0
    /\ \E i \in entity_indices : \E j \in entity_indices :
           /\ Less(NumZero, result_matrix[i][j])
           /\ RecordsOf(NameOf(i), NameOf(j)) = {}
    /\ \E e \in 1..Len(entities_index_mapping_dto) :
           entities_index_mapping_dto[e].entity_name \notin EdgeNamesUsed

\* some percentage of the request is outside [0, 1]
OutOfRange ==
    \E k \in 1..Len(ownerships_request) :
        \/ ownerships_request[k].ownership_percentage < 0
        \/ ownerships_request[k].ownership_percentage > Base

\* some edge of the request names an entity the entity list does not hold
UnknownName ==
    /\ route = "structure"
    /\ \E n \in EdgeNamesUsed :
           \A e \in 1..Len(entities_request) : entities_request[e].name # n

NothingComputed ==
    /\ direct_ownership_matrix = <<>>
    /\ result_matrix = <<>>
    /\ iterations = 0
    /\ items = <<>>

\* C8: a request with a percentage outside [0, 1] is refused when it is parsed,
\* and a request with an edge that names an unknown entity fails when its edges
\* are converted: in both cases before the direct matrix is built and before
\* the loop runs, and no record is returned.
C8_InvalidInputFailsBeforeMatrix ==
    /\ OutOfRange =>
           /\ pc \in {"request", "failed"}
           /\ pc = "failed" => error = "ValidationError"
           /\ NothingComputed
    /\ (UnknownName /\ ~OutOfRange) =>
           /\ pc \in {"request", "parsed", "mapped", "failed"}
           /\ pc = "failed" => error = "KeyError"
           /\ NothingComputed

\* the request with a percentage of 1.5 has failed
C8_Witness ==
    /\ pc = "failed"
    /\ error = "ValidationError"
    /\ \E k \in 1..Len(ownerships_request) :
           ownerships_request[k].ownership_percentage = 15000

\* the edges of the converted request from i to j
EdgesOf(i, j) ==
    {k \in 1..Len(ownerships_request_dto) :
        /\ ownerships_request_dto[k].owner_entity_index = i
        /\ ownerships_request_dto[k].owned_entity_index = j}

\* C9: the entry of the direct matrix for a pair is the percentage of the last
\* edge of the pair in input order, and 0 for a pair no edge names.
C9_LastEdgeWins ==
    Built =>
        \A i \in DOMAIN direct_ownership_matrix :
            \A j \in DOMAIN direct_ownership_matrix :
                direct_ownership_matrix[i][j] =
                    IF EdgesOf(i, j) = {} THEN NumZero
                    ELSE PctNum(ownerships_request_dto[SetMax(EdgesOf(i, j))]
                                    .ownership_percentage)

\* a pair with two edges of different percentages holds the later one
C9_Witness ==
    /\ Built
    /\ \E i \in DOMAIN direct_ownership_matrix :
           \E j \in DOMAIN direct_ownership_matrix :
               \E k \in EdgesOf(i, j) : \E l \in EdgesOf(i, j) :
                   /\ k < l
                   /\ ownerships_request_dto[k].ownership_percentage >
                          ownerships_request_dto[l].ownership_percentage
                   /\ ownerships_request_dto[l].ownership_percentage > 0
                   /\ direct_ownership_matrix[i][j] =
                          PctNum(ownerships_request_dto[l].ownership_percentage)

\* C10 as stated: every diagonal entry of the direct matrix is 0.
C10_DiagonalZero ==
    Built =>
        \A i \in DOMAIN direct_ownership_matrix :
            direct_ownership_matrix[i][i] = NumZero

\* the matrix m is square over the indices 0..n-1
SquareOf(m, n) ==
    /\ DOMAIN m = Indices(n)
    /\ \A i \in DOMAIN m : DOMAIN m[i] = Indices(n)

\* the largest index an edge refers to (0 when there is no edge, line 138)
MaxReferenced == IF entity_indices # {} THEN SetMax(entity_indices) ELSE 0

\* the entity numbers of the mapping that no edge refers to
Unreferenced ==
    {entities_index_mapping_dto[e].entity_number :
         e \in 1..Len(entities_index_mapping_dto)} \ entity_indices

\* index n has a row and a column in m, and every entry of them is 0
ZeroRowAndColumn(m, n) ==
    /\ n \in DOMAIN m
    /\ \A j \in DOMAIN m : m[n][j] = NumZero /\ m[j][n] = NumZero

\* C11 as stated: the direct matrix is square of dimension (largest referenced
\* index) + 1, and every entity of the mapping that no edge refers to has a
\* row and a column in it, all 0.
C11_UnreferencedHaveZeroRows ==
    Built =>
        /\ SquareOf(direct_ownership_matrix, MaxReferenced + 1)
        /\ \A n \in Unreferenced : ZeroRowAndColumn(direct_ownership_matrix, n)

\* C11 amended: the direct matrix is square of dimension (largest referenced
\* index) + 1, or 1 when there is no edge; an entity of the mapping that no edge
\* refers to has a row and a column of zeros when its index is below that
\* dimension, and has neither a row nor a column when its index is above the
\* largest referenced index.
C11_DimensionIsMaxReferencedPlusOne ==
    Built =>
        /\ SquareOf(direct_ownership_matrix, MaxReferenced + 1)
        /\ \A n \in Unreferenced :
               IF n <= MaxReferenced
               THEN ZeroRowAndColumn(direct_ownership_matrix, n)
               ELSE n \notin DOMAIN direct_ownership_matrix

\* the matrix is built with edges, one unreferenced entity inside it with its
\* row of zeros and one unreferenced entity beyond its last row
C11_Witness ==
    /\ Built
    /\ entity_indices # {}
    /\ \E n \in Unreferenced :
           n < MaxReferenced /\ ZeroRowAndColumn(direct_ownership_matrix, n)
    /\ \E n \in Unreferenced :
           n > MaxReferenced /\ n \notin DOMAIN direct_ownership_matrix

\* the index mapping has been created
Mapped == RequestAccepted(ownerships_request) /\ pc \notin {"request", "parsed"}

\* no two entities of the list have the same name
DistinctNames(entities) ==
    \A a \in 1..Len(entities) : \A b \in 1..Len(entities) :
        a # b => entities[a].name # entities[b].name

\* the mapping items that carry the name
ItemsNamed(mapping, name) == {k \in 1..Len(mapping) : mapping[k].entity_name = name}

\* the index the mapping gives the name (the name has one item)
IndexOf(mapping, name) == mapping[Only(ItemsNamed(mapping, name))].entity_number

\* the priority class of an accounting type: 0 first, 3 last
ClassRank(t) ==
    IF t = ULTIMATE_PARENT_ENTITY THEN 0
    ELSE IF t = CONSOLIDATED THEN 1
    ELSE IF t = EQUITY_METHOD THEN 2
    ELSE 3

\* C12: for a list of n entities with pairwise distinct names,
\* create_entities_index_mapping_dto gives every entity exactly one index, the
\* indices are 0..n-1 with none repeated, an entity of an earlier class
\* (ultimate parent, consolidated, equity method, other) has a smaller index
\* than one of a later class, and two entities of one class keep input order.
C12_IndexMappingByClass ==
    (route = "structure" /\ Mapped /\ DistinctNames(entities_request)) =>
        /\ Len(entities_index_mapping_dto) = Len(entities_request)
        /\ \A a \in 1..Len(entities_request) :
               Cardinality(ItemsNamed(entities_index_mapping_dto,
                                      entities_request[a].name)) = 1
        /\ {entities_index_mapping_dto[k].entity_number :
                k \in 1..Len(entities_index_mapping_dto)}
               = Indices(Len(entities_request))
        /\ \A a \in 1..Len(entities_request) : \A b \in 1..Len(entities_request) :
               LET ra == ClassRank(entities_request[a]
                                       .ultimate_parent_entity_accounting_type)
                   rb == ClassRank(entities_request[b]
                                       .ultimate_parent_entity_accounting_type)
               IN  (ra < rb \/ (ra = rb /\ a < b)) =>
                       IndexOf(entities_index_mapping_dto, entities_request[a].name)
                       < IndexOf(entities_index_mapping_dto, entities_request[b].name)

\* three entities with distinct names are mapped: one of a later class that
\* came first in the input has the larger index, and two of one class keep
\* their order
C12_Witness ==
    /\ route = "structure"
    /\ Mapped
    /\ DistinctNames(entities_request)
    /\ Len(entities_request) = 3
    /\ entities_request[1].ultimate_parent_entity_accounting_type = ETC
    /\ entities_request[2].ultimate_parent_entity_accounting_type = CONSOLIDATED
    /\ entities_request[3].ultimate_parent_entity_accounting_type = CONSOLIDATED
    /\ IndexOf(entities_index_mapping_dto, entities_request[1].name) = 2
    /\ IndexOf(entities_index_mapping_dto, entities_request[2].name) = 0
    /\ IndexOf(entities_index_mapping_dto, entities_request[3].name) = 1

\* C13 as stated: an entity list with a name twice makes index assignment fail
\* with a duplicate-entity error: no mapping is produced, no name has two
\* indices, and no matrix is built.
C13_DuplicateNamesRejected ==
    (route = "structure" /\ RequestAccepted(ownerships_request)
        /\ ~DistinctNames(entities_request)) =>
        /\ pc \in {"request", "parsed", "failed"}
        /\ pc = "failed" => error = "DuplicateEntityError"
        /\ entities_index_mapping_dto = <<>>
        /\ \A a \in 1..Len(entities_request) :
               Cardinality({entities_index_mapping_dto[k].entity_number :
                   k \in ItemsNamed(entities_index_mapping_dto,
                                    entities_request[a].name)}) <= 1
        /\ direct_ownership_matrix = <<>>

\* C14 as stated: after k completed passes, for every direct matrix D, the
\* result matrix is the partial sum D + D^2 + ... + D^(k+1): entry [i][j] is
\* the sum over the paths of 1 to k+1 edges from i to j, up to the rounding of
\* float64, and setting the diagonal to 1 has discarded nothing accumulated
\* before.
C14_PartialSumInvariant ==
    Built =>
        \A i \in DOMAIN result_matrix : \A j \in DOMAIN result_matrix :
            NearlyEqual(result_matrix[i][j],
                        PathSum(direct_ownership_matrix, i, j, iterations + 1))

\* every entry of b is within the absolute tolerance atol of the entry of a
WithinAbsolute(a, b, atol) ==
    \A i \in DOMAIN a : \A j \in DOMAIN a : Leq(AbsDiff(a[i][j], b[i][j]), atol)

\* C15 as stated: the loop ends after a pass exactly when the counter has
\* reached 1000 or every entry of the new R is within the absolute tolerance
\* 1e-7 of the same entry of previous; a pass that changed an entry by more
\* than 1e-7 is the last one only at the cap.
C15_StopsOnAbsoluteTolerance ==
    /\ LoopOver =>
           \/ iterations >= max_iterations
           \/ WithinAbsolute(previous_matrix, result_matrix, epsilon_for_calculation)
    /\ (pc = "loop" /\ iterations > 0) =>
           /\ iterations < max_iterations
           /\ ~WithinAbsolute(previous_matrix, result_matrix, epsilon_for_calculation)

\* the records for the pair of indices (i, j) that carry the rounded R[i][j]
RecordsWithRatio(i, j) ==
    {k \in RecordsOf(NameOf(i), NameOf(j)) :
        items[k].direct_indirect_ownership_ratio =
            Round(result_matrix[i][j], decimal_places)}

\* C16 as stated: from the built matrix on, before and after every pass, every
\* entry of the result matrix is at least the entry of the direct matrix,
\* which is at least 0; and every pair whose direct percentage is above 1e-6
\* has a record in the output, whose ratio before rounding is at least that
\* percentage.
C16_ResultAtLeastDirect ==
    /\ Built =>
           \A i \in DOMAIN direct_ownership_matrix :
               \A j \in DOMAIN direct_ownership_matrix :
                   /\ Leq(NumZero, direct_ownership_matrix[i][j])
                   /\ Leq(direct_ownership_matrix[i][j], result_matrix[i][j])
    /\ Returned =>
           \A i \in DOMAIN direct_ownership_matrix :
               \A j \in DOMAIN direct_ownership_matrix :
                   Less(OneMillionth, direct_ownership_matrix[i][j]) =>
                       /\ RecordsWithRatio(i, j) # {}
                       /\ Leq(direct_ownership_matrix[i][j], result_matrix[i][j])

\* C17: no step after the direct matrix is built changes it, and a pass of the
\* loop saves as previous the result matrix as it was before its diagonal is
\* set to 1, multiplies the result with the diagonal set to 1 by the direct
\* matrix as built, and tests the saved previous against the new product.
C17_PassKeepsDirectAndPrevious ==
    [][ /\ Built => direct_ownership_matrix' = direct_ownership_matrix
        /\ pc = "loop" =>
               /\ direct_ownership_matrix =
                      DirectOwnershipMatrix(ownerships_request_dto)
               /\ previous_matrix' = result_matrix
               /\ result_matrix' = MatMul(FillDiagonal(result_matrix),
                                          direct_ownership_matrix)
               /\ close' = AllClose(result_matrix, result_matrix',
                                    epsilon_for_calculation) ]_vars

\* a pass has saved a previous whose diagonal is neither 0 nor 1: what the
\* pass before had accumulated there, not the 1 written over it
C17_Witness ==
    /\ pc \in {"loop", "extract"}
    /\ iterations >= 2
    /\ direct_ownership_matrix = DirectOwnershipMatrix(ownerships_request_dto)
    /\ \E i \in DOMAIN previous_matrix :
           /\ previous_matrix[i][i] # NumZero
           /\ previous_matrix[i][i] # NumOne
           /\ direct_ownership_matrix[i][i] = NumZero

====
